---- MODULE Spec2Model ----
(***************************************************************************)
(* Model of the sound-effect engine of rust-oids                           *)
(* (src/frontend/audio/multiplexer.rs): the voice pool and mixer of        *)
(* Multiplexer, and the SignalBuilder / Signal::with_delay pipeline that   *)
(* renders the wavetable.                                                  *)
(*                                                                         *)
(* Conventions.  Rust indices are 0-based and kept so: a Vec of n elements *)
(* indexed 0..n-1 is either a function on 0..n-1 (voices) or a sequence s  *)
(* read as s[i + 1] (wave_table, frames, buffers).  Option<usize> is a     *)
(* sequence of length at most one: <<>> is None, <<i>> is Some(i).         *)
(* Samples are exact integers (f32 rounding is not modelled).  A Rust      *)
(* panic is the flag panicked; nothing runs after a panic.                 *)
(***************************************************************************)
EXTENDS Integers, Sequences, FiniteSets, TLC

(* ------------------------------ bounds -------------------------------- *)

\* largest max_voices passed to Multiplexer::new
MaxVoices == 2

\* longest signal of the wavetable, in frames
MaxLen == 3

\* longest buffer handed to audio_requested, in frames
MaxBuf == 2

\* number of output channels (StereoFrame)
CHANNELS == 2

\* the sample rate every SignalBuilder is constructed with, in frames per second
SampleRate == 48000

\* time resolution of the model: durations are whole numbers of ticks, one tick
\* being 1 / (TicksPerFrame * SampleRate) seconds
TicksPerFrame == 2

\* longest oscillator duration and delay time, in ticks
MaxTicks == 4

\* longest tail handed to Signal::with_delay on its own, in ticks
MaxTailTicks == 4

\* resolution of the times, phases and waveform parameters the synthesis
\* functions are evaluated at: multiples of 1 / GridSteps in [0, 1]
GridSteps == 4

\* largest window_size passed to MovingAverage::new
MaxWindow == 3

\* most calls of smooth on one MovingAverage
MaxSmooth == 5

\* largest impulse and largest limit passed to Inertial::new
MaxImpulse == 2

MaxLimit == 3

\* largest component of the velocity of an Inertial, in absolute value
MaxSpeed == 4

\* longest source signal handed to Signal::with_delay on its own, in frames
MaxSource == 2

\* number of signals recorded into the wavetable by builder chains
MaxRecorded == 1

VARIABLES
    wave_table,     \* Multiplexer.wave_table: sequence of Signal
    sample_map,     \* Multiplexer.sample_map: effect -> wavetable index
    voices,         \* Multiplexer.voices: [0..max_voices-1 -> Voice]
    playing,        \* Multiplexer.playing_voice_index (BitSet)
    available,      \* Multiplexer.available_voice_index (Vec used as stack)
    buffer,         \* the caller's buffer as the last audio_requested left it
    panicked,       \* a call has panicked
    last,           \* history: the last call and its argument
    streak,         \* history: mapped trigger calls since the last audio_requested
    triggered,      \* history: per slot, the effect of its last successful trigger
    cum,            \* history: per slot, frames consumed since that trigger
    builder,        \* the SignalBuilder value of the chain being evaluated
    delay_in,       \* arguments of a Signal::with_delay call
    delay_out,      \* what that call returned
    synth_in,       \* arguments of an Envelope::gain or Waveform::sample call
    synth_out,      \* what that call returned
    drain,          \* history: the caller has stopped triggering and pulls buffers
                    \* of one length: that length, the pulls made since, and the
                    \* slots that were playing from position 0 when it stopped
    race,           \* two threads sharing one Multiplexer: whether calls are
                    \* serialised, and each thread's position and locals
    with_arg,       \* the with_X call last made on builder, and its argument
    with_out,       \* what that call returned
    average,        \* a MovingAverage
    smoothed,       \* history: the values passed to its smooth, oldest first
    inertial        \* an Inertial

vars == <<wave_table, sample_map, voices, playing, available, buffer,
          panicked, last, streak, triggered, cum, builder, delay_in, delay_out,
          synth_in, synth_out, drain, race, with_arg, with_out,
          average, smoothed, inertial>>

\* the variables of the synthesis functions
synth_vars == <<synth_in, synth_out>>

\* the variables of a with_X call whose result is held apart from its receiver
with_vars == <<with_arg, with_out>>

\* the variables of the smoothing and motion helpers of core::math
math_vars == <<average, smoothed, inertial>>

\* no MovingAverage and no Inertial has been made
MathIdle ==
    /\ average = <<>>
    /\ smoothed = <<>>
    /\ inertial = <<>>

\* the variables a Multiplexer or SignalBuilder call leaves alone
aux_vars == <<synth_vars, drain, race, with_vars, math_vars>>

mux_vars == <<sample_map, voices, playing, available, buffer, streak,
              triggered, cum>>

\* the Multiplexer a call receives as &mut self
pool == [wave_table |-> wave_table, sample_map |-> sample_map,
         voices |-> voices, playing |-> playing, available |-> available,
         panicked |-> panicked]

\* the synthesis functions are not being evaluated, the caller has not stopped
\* triggering, the Multiplexer is not shared between threads, no with_X result
\* is held
AuxIdle ==
    /\ synth_in = <<>>
    /\ synth_out = <<>>
    /\ drain = <<>>
    /\ race = <<>>
    /\ with_arg = <<>>
    /\ with_out = <<>>
    /\ MathIdle

(* ------------------------------ helpers ------------------------------- *)

Min(a, b) == IF a <= b THEN a ELSE b

Range(s) == {s[i] : i \in 1..Len(s)}

MinOf(S) == CHOOSE x \in S : \A y \in S : x <= y

None == <<>>

Some(i) == <<i>>

\* Signal::len
SignalLen(signal) == Len(signal.frames)

Silence == [c \in 1..CHANNELS |-> 0]

\* mutant: the buffer is not cleared before mixing
equilibrium_skipped(buf) == buf

\* sample::slice::equilibrium: every frame of the buffer set to silence
equilibrium(buf) == [k \in 1..Len(buf) |-> Silence]

(* ------------------------------- Voice -------------------------------- *)

\* #[derive(Default)] Voice
VoiceDefault == [signal |-> None, length |-> 0, position |-> 0]

\* mutant: the voice is one frame longer than its signal
VoiceNew_longer(signal_index, length) ==
    [signal |-> Some(signal_index), length |-> length + 1, position |-> 0]

\* Voice::new
VoiceNew(signal_index, length) ==
    [signal |-> Some(signal_index), length |-> length, position |-> 0]

\* mutant: the position is not subtracted
remaining_whole(voice) == voice.length

\* Voice::remaining (usize subtraction: underflow is reported separately)
remaining(voice) == voice.length - voice.position

\* mutant: the position is not advanced
AdvancePosition_stuck(voice, l) == voice.position

\* mutant: the position is replaced by the step, not advanced by it
AdvancePosition_restart(voice, l) == Min(voice.length, l)

\* the new position computed by Voice::advance
AdvancePosition(voice, l) == Min(voice.length, voice.position + l)

\* mutant: the comparison is flipped
AdvanceEof_flipped(voice, position) == position <= voice.length

\* mutant: the comparison is strict
AdvanceEof_strict(voice, position) == position > voice.length

\* the value returned by Voice::advance for the new position (true on EOF)
AdvanceEof(voice, position) == position >= voice.length

\* Voice::advance: the voice after the call, and the returned flag
advance(voice, l) ==
    LET p == AdvancePosition(voice, l)
    IN  [voice |-> [voice EXCEPT !.position = p], eof |-> AdvanceEof(voice, p)]

(* ----------------------------- Multiplexer ---------------------------- *)

\* the wavetable of the model: one signal of every length 0..MaxLen, whose
\* frame k of signal s holds a value telling s, k and the channel apart
SampleValue(s, k, c) == (s + 1) * 100 + (k + 1) * 10 + c

ModelSignal(s, n) ==
    [sample_rate |-> SampleRate,
     frames |-> [k \in 1..n |-> [c \in 1..CHANNELS |-> SampleValue(s, k - 1, c)]]]

ModelWaveTable == [s \in 1..(MaxLen + 1) |-> ModelSignal(s - 1, s - 1)]

\* effects 1..n are mapped, in recording order, to signals 0..n-1; effect 0
\* is a SoundEffect that Multiplexer::new maps to nothing
ModelSampleMap == [e \in 1..(MaxLen + 1) |-> e - 1]

Effects == 0..(MaxLen + 1)

\* Multiplexer::new, the voice pool part
NewVoices(max_voices) == [i \in 0..(max_voices - 1) |-> VoiceDefault]

\* mutant: the range stops one slot short
NewAvailable_short(max_voices) == [k \in 1..(max_voices - 1) |-> max_voices - 1 - k]

\* (0..max_voices).rev().collect(): slot 0 is on top of the stack
NewAvailable(max_voices) == [k \in 1..max_voices |-> max_voices - k]

\* mutant: the slot is not removed from the playing set
free_voice_keeps_playing(p, voice_index) ==
    [p EXCEPT !.voices[voice_index].signal = None,
              !.available = Append(@, voice_index)]

\* mutant: the slot is put under the stack, not on top of it
free_voice_under(p, voice_index) ==
    [p EXCEPT !.voices[voice_index].signal = None,
              !.playing = @ \ {voice_index},
              !.available = <<voice_index>> \o @]

\* Multiplexer::free_voice
free_voice(p, voice_index) ==
    [p EXCEPT !.voices[voice_index].signal = None,
              !.playing = @ \ {voice_index},
              !.available = Append(@, voice_index)]

\* mutant: on an empty stack the lowest playing slot is stolen
allocate_voice_steals(p, voice) ==
    IF p.available = <<>>
    THEN IF p.playing = {}
         THEN [pool |-> p, allocated |-> None]
         ELSE [pool |-> [p EXCEPT !.voices[MinOf(p.playing)] = voice],
               allocated |-> Some(MinOf(p.playing))]
    ELSE LET voice_index == p.available[Len(p.available)]
         IN  [pool |-> [p EXCEPT !.available = SubSeq(@, 1, Len(@) - 1),
                                 !.playing = @ \cup {voice_index},
                                 !.voices[voice_index] = voice],
              allocated |-> Some(voice_index)]

\* Multiplexer::allocate_voice: the pool after the call and the Option returned
allocate_voice(p, voice) ==
    IF p.available = <<>>
    THEN [pool |-> p, allocated |-> None]
    ELSE LET voice_index == p.available[Len(p.available)]
             popped == SubSeq(p.available, 1, Len(p.available) - 1)
         IN  [pool |-> [p EXCEPT !.available = popped,
                                 !.playing = @ \cup {voice_index},
                                 !.voices = IF voice_index \in DOMAIN @
                                            THEN [@ EXCEPT ![voice_index] = voice]
                                            ELSE @,
                                 !.panicked = voice_index \notin DOMAIN p.voices],
              allocated |-> Some(voice_index)]

\* buffer[idx][channel] += frames[idx][channel] for idx < len, all channels
MixInto(buf, frames, position, len) ==
    [k \in 1..Len(buf) |->
        IF k <= len
        THEN [c \in 1..CHANNELS |-> buf[k][c] + frames[position + k][c]]
        ELSE buf[k]]

\* one iteration of the sweep of audio_requested over a playing voice
\* acc = [buffer, voices, terminated, panicked]
SweepVoice(table, acc, voice_index) ==
    LET voice == acc.voices[voice_index]
    IN  IF voice.signal = None THEN acc
        ELSE LET signal_index == voice.signal[1]
             IN  IF signal_index >= Len(table)
                    \/ voice.position > SignalLen(table[signal_index + 1])
                    \/ voice.position > voice.length
                 THEN [acc EXCEPT !.panicked = TRUE]
                 ELSE LET frames == table[signal_index + 1].frames
                          len == Min(Len(acc.buffer), remaining(voice))
                      IN  IF voice.position + len > Len(frames)
                          THEN [acc EXCEPT !.panicked = TRUE]
                          ELSE LET adv == advance(voice, len)
                               IN  [acc EXCEPT
                                      !.buffer = MixInto(@, frames, voice.position, len),
                                      !.voices[voice_index] = adv.voice,
                                      !.terminated = IF adv.eof
                                                     THEN @ \cup {voice_index}
                                                     ELSE @]

\* for voice_index in &self.playing_voice_index, in ascending order, from the
\* accumulator so_far on (bound through a one-element set, so that it is
\* evaluated once per iteration)
RECURSIVE Sweep(_, _, _)
Sweep(table, so_far, rest) ==
    CHOOSE result \in
        {IF todo = {} \/ acc.panicked THEN acc
         ELSE LET voice_index == MinOf(todo)
              IN  Sweep(table, SweepVoice(table, acc, voice_index), todo \ {voice_index}) :
            acc \in {so_far}, todo \in {rest}} : TRUE

\* for voice_index in &terminated_voices { free_voice }, in ascending order
RECURSIVE FreeAll(_, _)
FreeAll(so_far, rest) ==
    CHOOSE result \in
        {IF todo = {} THEN p
         ELSE LET voice_index == MinOf(todo)
              IN  FreeAll(free_voice(p, voice_index), todo \ {voice_index}) :
            p \in {so_far}, todo \in {rest}} : TRUE

\* Multiplexer::audio_requested: the pool and the buffer after the call
audio_requested(table, p, buf) ==
    CHOOSE result \in
        {IF acc.panicked
         THEN [pool |-> [p EXCEPT !.voices = acc.voices, !.panicked = TRUE],
               buffer |-> acc.buffer]
         ELSE [pool |-> FreeAll([p EXCEPT !.voices = acc.voices], acc.terminated),
               buffer |-> acc.buffer] :
            acc \in {Sweep(table,
                           [buffer |-> equilibrium(buf), voices |-> p.voices,
                            terminated |-> {}, panicked |-> FALSE],
                           p.playing)}} : TRUE

\* mutant: a triggered effect is taken out of the map
trigger_forgets(table, map, p, effect) ==
    IF effect \notin DOMAIN map
    THEN [pool |-> p, allocated |-> None]
    ELSE LET r == allocate_voice(p, VoiceNew(map[effect], SignalLen(table[map[effect] + 1])))
         IN  [r EXCEPT !.pool.sample_map = [e \in DOMAIN @ \ {effect} |-> @[e]]]

\* Multiplexer::trigger: the pool after the call and what allocate_voice returned
trigger(table, map, p, effect) ==
    IF effect \notin DOMAIN map
    THEN [pool |-> p, allocated |-> None]
    ELSE LET signal_index == map[effect]
         IN  IF signal_index >= Len(table)
             THEN [pool |-> [p EXCEPT !.panicked = TRUE], allocated |-> None]
             ELSE allocate_voice(p, VoiceNew(signal_index,
                                             SignalLen(table[signal_index + 1])))

(* ------------------------------ actions ------------------------------- *)

\* the contents a caller's buffer may hold before audio_requested
BufferFills == {0, 7}

InputBuffer(n, fill) == [k \in 1..n |-> [c \in 1..CHANNELS |-> fill]]

\* length of the signal effect e plays, by the wavetable
EffectLen(e) == SignalLen(wave_table[sample_map[e] + 1])

\* Multiplexer::new(_, max_voices)
Init ==
    \E max_voices \in 0..MaxVoices :
        /\ wave_table = ModelWaveTable
        /\ sample_map = ModelSampleMap
        /\ voices = NewVoices(max_voices)
        /\ playing = {}
        /\ available = NewAvailable(max_voices)
        /\ buffer = <<>>
        /\ panicked = FALSE
        /\ last = [op |-> "new", arg |-> max_voices]
        /\ streak = 0
        /\ triggered = [i \in 0..(max_voices - 1) |-> None]
        /\ cum = [i \in 0..(max_voices - 1) |-> 0]
        /\ builder = <<>>
        /\ delay_in = <<>>
        /\ delay_out = <<>>
        /\ AuxIdle

Trigger(effect) ==
    /\ ~panicked
    /\ LET r == trigger(wave_table, sample_map, pool, effect)
       IN  /\ voices' = r.pool.voices
           /\ playing' = r.pool.playing
           /\ available' = r.pool.available
           /\ panicked' = r.pool.panicked
           /\ wave_table' = r.pool.wave_table
           /\ sample_map' = r.pool.sample_map
           /\ triggered' = IF r.allocated = None \/ r.pool.panicked THEN triggered
                           ELSE [triggered EXCEPT ![r.allocated[1]] = Some(effect)]
           /\ cum' = IF r.allocated = None \/ r.pool.panicked THEN cum
                     ELSE [cum EXCEPT ![r.allocated[1]] = 0]
    /\ buffer' = <<>>
    /\ last' = [op |-> "trigger", arg |-> effect]
    /\ streak' = IF effect \in DOMAIN sample_map
                 THEN Min(streak + 1, Cardinality(DOMAIN voices) + 1)
                 ELSE streak
    /\ UNCHANGED <<builder, delay_in, delay_out, aux_vars>>

\* a call of audio_requested on a buffer of n frames holding fill
AudioRequestedCall(n, fill) ==
    /\ ~panicked
    /\ \E r \in {audio_requested(wave_table, pool, InputBuffer(n, fill))} :
           /\ voices' = r.pool.voices
           /\ playing' = r.pool.playing
           /\ available' = r.pool.available
           /\ panicked' = r.pool.panicked
           /\ wave_table' = r.pool.wave_table
           /\ sample_map' = r.pool.sample_map
           /\ buffer' = r.buffer
    /\ last' = [op |-> "audio", arg |-> n]
    /\ streak' = 0
    /\ cum' = [i \in DOMAIN cum |->
                 IF i \in playing /\ triggered[i] # None
                 THEN cum[i] + Min(n, EffectLen(triggered[i][1]) - cum[i])
                 ELSE cum[i]]
    /\ UNCHANGED <<triggered, builder, delay_in, delay_out, synth_vars, race, with_vars,
                   math_vars>>

AudioRequested(n, fill) == AudioRequestedCall(n, fill) /\ UNCHANGED drain

Next ==
    \/ \E effect \in Effects : Trigger(effect)
    \/ \E n \in 0..MaxBuf, fill \in BufferFills : AudioRequested(n, fill)

Spec == Init /\ [][Next]_vars

(* --------------------- voice pool: claims C1..C8 ---------------------- *)

\* the slot indices 0..max_voices-1
Slots == DOMAIN voices

IsTrigger(l) == l.op = "trigger"

IsAudio(l) == l.op = "audio"

\* the signal length of the effect last triggered on slot i
TriggeredLen(i) == EffectLen(triggered[i][1])

\* what the voice of slot i holds for frame k (0-based) of a pull, channel c
VoiceSample(i, k, c) ==
    IF voices[i].position + k < voices[i].length
    THEN wave_table[voices[i].signal[1] + 1].frames[voices[i].position + k + 1][c]
    ELSE 0

\* the reference mix: the voices of S summed one by one
RECURSIVE MixRef(_, _, _)
MixRef(S, k, c) ==
    IF S = {} THEN 0
    ELSE LET i == MinOf(S) IN VoiceSample(i, k, c) + MixRef(S \ {i}, k, c)

\* C1: in every reachable state the playing set and the available stack
\* partition the slot indices 0..max_voices-1, and no slot is twice in the stack.
C1_Partition ==
    /\ playing \cup Range(available) = Slots
    /\ playing \cap Range(available) = {}
    /\ Cardinality(Range(available)) = Len(available)

\* C1: a slot has been played and recycled while another one is still free
\* or playing
C1_Witness ==
    /\ IsAudio(last)
    /\ playing # {}
    /\ \E i \in Range(available) : triggered[i] # None

\* C2: after N = max_voices consecutive trigger calls on mapped effects with no
\* audio_requested in between, exactly N voices play and the stack is empty;
\* a further such call changes nothing of the pool; none of them panics.
C2_PoolCapacity ==
    /\ [](/\ streak >= Cardinality(Slots)
             => Cardinality(playing) = Cardinality(Slots) /\ available = <<>>
          /\ IsTrigger(last) => ~panicked)
    /\ [][(/\ IsTrigger(last')
           /\ last'.arg \in DOMAIN sample_map
           /\ streak >= Cardinality(Slots))
          => UNCHANGED <<voices, playing, available, panicked>>]_vars

\* C2: the (N+1)-th trigger in a row on a pool of MaxVoices slots has been made
C2_Witness ==
    /\ Cardinality(Slots) = MaxVoices
    /\ IsTrigger(last)
    /\ last.arg \in DOMAIN sample_map
    /\ streak = MaxVoices + 1

\* C3: a trigger call on an unmapped effect, or on an empty available stack,
\* leaves the playing set, the stack and every voice record as they were.
C3_FailedTriggerNoOp ==
    [][(/\ IsTrigger(last')
        /\ \/ last'.arg \notin DOMAIN sample_map
           \/ available = <<>>)
       => UNCHANGED <<voices, playing, available, panicked>>]_vars

\* C3: an unmapped effect was just triggered, after a mapped one was dropped on
\* a full pool in the same run of triggers
C3_Witness ==
    /\ IsTrigger(last)
    /\ last.arg \notin DOMAIN sample_map
    /\ Cardinality(Slots) >= 1
    /\ streak = Cardinality(Slots) + 1
    /\ \E i \in playing : voices[i].length > 0

\* C4: a playing voice of length L is removed from the playing set by exactly the
\* audio_requested call that brings its cumulative consumption (the sum of
\* min(buffer length, remaining) over the calls since its trigger) to L: it stays
\* while the sum is below L, it goes when the sum is L, and nothing else removes
\* it; once removed its slot is in the available stack, and a trigger on a mapped
\* effect takes the slot on top of the stack.
C4_TerminationAndReuse ==
    [][/\ \A i \in Slots :
            /\ (i \in playing /\ IsAudio(last'))
                 => /\ cum'[i] <= TriggeredLen(i)
                    /\ (i \in playing') <=> (cum'[i] < TriggeredLen(i))
                    /\ (i \notin playing') => i \in Range(available')
            /\ (i \in playing /\ i \notin playing') => IsAudio(last')
       /\ (/\ IsTrigger(last')
           /\ last'.arg \in DOMAIN sample_map
           /\ available # <<>>)
            => LET top == available[Len(available)]
               IN  /\ top \in playing'
                   /\ voices'[top] = [signal |-> Some(sample_map[last'.arg]),
                                      length |-> EffectLen(last'.arg),
                                      position |-> 0]]_vars

\* C4: a voice longer than the last buffer, so consumed over several calls, has
\* just ended and its slot is back in the stack
C4_Witness ==
    /\ IsAudio(last)
    /\ \E i \in Range(available) :
          /\ triggered[i] # None
          /\ TriggeredLen(i) = MaxLen
          /\ cum[i] = MaxLen
          /\ last.arg < MaxLen
          /\ last.arg > 0

\* C5: after audio_requested(buffer), frame k, channel c of the buffer is the sum,
\* over the voices playing when the call started with position + k < length, of
\* their wavetable sample at position + k, whatever the buffer held before; a
\* frame no voice covers is silence.
C5_AdditiveMix ==
    [][IsAudio(last')
       => /\ ~panicked'
          /\ Len(buffer') = last'.arg
          /\ \A k \in 0..(last'.arg - 1) : \A c \in 1..CHANNELS :
                buffer'[k + 1][c] = MixRef(playing, k, c)]_vars

\* C5: one pull mixed two voices into frame 0 and left frame 1 silent
C5_Witness ==
    /\ IsAudio(last)
    /\ Len(buffer) = 2
    /\ buffer[2] = Silence
    /\ \A c \in 1..CHANNELS : buffer[1][c] = 2 * wave_table[2].frames[1][c]

\* C6: every playing voice has position <= length; an audio_requested call
\* advances each playing voice by min(buffer length, length - position), never
\* past its length, and moves it from playing to available exactly when its
\* position has become equal to its length; no other call removes it.
C6_PositionBound ==
    /\ [](\A i \in playing : voices[i].position <= voices[i].length)
    /\ [][\A i \in Slots :
            /\ (i \in playing /\ IsAudio(last'))
                 => /\ voices'[i].position = voices[i].position
                          + Min(last'.arg, voices[i].length - voices[i].position)
                    /\ voices'[i].length = voices[i].length
                    /\ voices'[i].position <= voices'[i].length
                    /\ (i \notin playing') <=> (voices'[i].position = voices'[i].length)
                    /\ (i \notin playing') => i \in Range(available')
            /\ (i \in playing /\ i \notin playing') => IsAudio(last')]_vars

\* C6: a voice advanced by a pull and is still playing, short of its length
C6_Witness ==
    /\ IsAudio(last)
    /\ \E i \in playing :
          /\ voices[i].position = last.arg
          /\ 0 < voices[i].position
          /\ voices[i].position < voices[i].length

\* C7: trigger never removes a slot from the playing set nor changes the voice
\* record of a playing slot; audio_requested never adds a slot to the playing
\* set; a slot leaves playing only in audio_requested, with its position at its
\* length, and enters it only in trigger, at position 0.
C7_NoEarlyStop ==
    [][\A i \in Slots :
         /\ (IsTrigger(last') /\ i \in playing)
              => i \in playing' /\ voices'[i] = voices[i]
         /\ (IsAudio(last') /\ i \notin playing) => i \notin playing'
         /\ (i \in playing /\ i \notin playing')
              => /\ IsAudio(last')
                 /\ voices'[i].position = voices'[i].length
                 /\ i \in Range(available')
         /\ (i \notin playing /\ i \in playing')
              => /\ IsTrigger(last')
                 /\ voices'[i].position = 0
                 /\ voices'[i].signal # None]_vars

\* C7: a trigger started one voice while another, part-way through its signal,
\* went on playing
C7_Witness ==
    /\ IsTrigger(last)
    /\ \E i \in playing : \E j \in playing :
          /\ 0 < voices[i].position
          /\ voices[i].position < voices[i].length
          /\ voices[j].position = 0
          /\ voices[j].length > 0

\* the playing slots whose triggered effect has a signal of length zero
ZeroLengthPlaying == {i \in playing : triggered[i] # None /\ TriggeredLen(i) = 0}

\* C8: a playing voice whose signal has length zero is removed from the playing
\* set and returned to the stack by the very next audio_requested call, for any
\* buffer length including zero, and the buffer of that call is the mix of the
\* other voices alone.
C8_ZeroLengthSignal ==
    [][(IsAudio(last') /\ ZeroLengthPlaying # {})
       => /\ ~panicked'
          /\ \A i \in ZeroLengthPlaying :
                i \notin playing' /\ i \in Range(available')
          /\ \A k \in 0..(last'.arg - 1) : \A c \in 1..CHANNELS :
                buffer'[k + 1][c] = MixRef(playing \ ZeroLengthPlaying, k, c)]_vars

\* C8: a pull has ended a zero-length voice while mixing another voice's frames
C8_Witness ==
    /\ IsAudio(last)
    /\ last.arg > 0
    /\ buffer[1] # Silence
    /\ \E i \in Range(available) :
          triggered[i] # None /\ TriggeredLen(i) = 0 /\ voices[i].length = 0

(* ------------------------ exact rational numbers ---------------------- *)
(* f32 / f64 values are modelled as exact rationals <<n, d>> in lowest      *)
(* terms with d > 0; floating-point rounding is not modelled.              *)

Abs(n) == IF n < 0 THEN -n ELSE n

RECURSIVE GCD(_, _)
GCD(a, b) == IF b = 0 THEN a ELSE GCD(b, a % b)

\* n / d in lowest terms, d # 0
Rat(n, d) ==
    LET g == GCD(Abs(n), Abs(d))
        s == IF d < 0 THEN -1 ELSE 1
    IN  <<(s * n) \div g, (s * d) \div g>>

RInt(n) == <<n, 1>>

Zero == RInt(0)

One == RInt(1)

Half == <<1, 2>>

RNeg(x) == <<-x[1], x[2]>>

RAdd(x, y) ==
    LET g == GCD(x[2], y[2])
    IN  Rat(x[1] * (y[2] \div g) + y[1] * (x[2] \div g), (x[2] \div g) * y[2])

RSub(x, y) == RAdd(x, RNeg(y))

RMul(x, y) ==
    LET g1 == GCD(Abs(x[1]), y[2])
        g2 == GCD(Abs(y[1]), x[2])
    IN  IF x[1] = 0 \/ y[1] = 0 THEN Zero
        ELSE <<(x[1] \div g1) * (y[1] \div g2), (x[2] \div g2) * (y[2] \div g1)>>

\* x / y, y # 0
RDiv(x, y) == RMul(x, IF y[1] < 0 THEN <<-y[2], -y[1]>> ELSE <<y[2], y[1]>>)

RLess(x, y) == RSub(x, y)[1] < 0

RLeq(x, y) == RSub(x, y)[1] <= 0

RMin(x, y) == IF RLess(y, x) THEN y ELSE x

RMax(x, y) == IF RLess(x, y) THEN y ELSE x

\* f32::fract: the fractional part, with the sign of x
RFract(x) ==
    IF x[1] >= 0 THEN Rat(x[1] % x[2], x[2]) ELSE RNeg(Rat((-x[1]) % x[2], x[2]))

\* mutant: the sign of zero is zero
RSignum_zero(x) == IF x[1] < 0 THEN RNeg(One) ELSE IF x[1] = 0 THEN Zero ELSE One

\* f32::signum: 1.0 for positive numbers and +0.0 (the result of a - a), -1.0
\* for negative numbers
RSignum(x) == IF x[1] < 0 THEN RNeg(One) ELSE One

\* mutant: truncation instead of rounding
RoundToUsize_truncates(x) == IF x[1] <= 0 THEN 0 ELSE x[1] \div x[2]

\* x.round() as usize: round half away from zero; a negative value casts to 0
RoundToUsize(x) == IF x[1] <= 0 THEN 0 ELSE (2 * x[1] + x[2]) \div (2 * x[2])

\* Seconds of n ticks
Ticks(n) == Rat(n, TicksPerFrame * SampleRate)

\* sample::Frame::from_fn: the frame whose channel c (1-based) holds f[c]
RECURSIVE FromFnUpTo(_, _)
FromFnUpTo(f, n) == IF n = 0 THEN <<>> ELSE Append(FromFnUpTo(f, n - 1), f[n])

from_fn(f) == FromFnUpTo(f, CHANNELS)

RSilence == from_fn([channel \in 1..CHANNELS |-> Zero])

(* ------------------- Waveform, Envelope, Oscillator ------------------- *)

\* mutant: the interpolation runs from y1 to y0
lerp_clip_from_end(x0, x1, y0, y1, t) ==
    LET v == IF x1 = x0
             THEN (IF RLess(t, x0) THEN Zero ELSE One)
             ELSE RDiv(RSub(t, x0), RSub(x1, x0))
    IN  RAdd(y1, RMul(RSub(y0, y1), RMax(Zero, RMin(One, v))))

\* lerp_clip.  With x1 = x0 the quotient is +inf, -inf or NaN, which min and max
\* clamp to 1, 0 and 1.
lerp_clip(x0, x1, y0, y1, t) ==
    LET v == IF x1 = x0
             THEN (IF RLess(t, x0) THEN Zero ELSE One)
             ELSE RDiv(RSub(t, x0), RSub(x1, x0))
    IN  RAdd(y0, RMul(RSub(y1, y0), RMax(Zero, RMin(One, v))))

\* Waveform::sample for Triangle, Square and Silence (Sin and Harmonics are
\* outside rational arithmetic and are not modelled)
Waveform_sample(waveform, phase) ==
    CASE waveform.kind = "Triangle" ->
            IF RLess(phase, waveform.param)
            THEN lerp_clip(Zero, waveform.param, RNeg(One), One, phase)
            ELSE lerp_clip(waveform.param, One, One, RNeg(One), phase)
      [] waveform.kind = "Square" -> RSignum(RSub(phase, waveform.param))
      [] OTHER -> Zero

\* Envelope::default
Envelope_default == [attack |-> Zero, decay |-> Zero, sustain |-> One, release |-> Zero]

\* Envelope::ramp_down
Envelope_ramp_down(duration) == [Envelope_default EXCEPT !.release = duration]

\* a branch of Envelope::gain that calls lerp_clip(x0, x1, y0, y1, t)
Ramp(x0, x1, y0, y1) == [ramp |-> TRUE, x0 |-> x0, x1 |-> x1, y0 |-> y0, y1 |-> y1]

\* a branch of Envelope::gain that returns the level y
Level(y) == [ramp |-> FALSE, x0 |-> Zero, x1 |-> Zero, y0 |-> y, y1 |-> y]

\* mutant: the tests of the branches admit their upper ends
GainBranch_inclusive(envelope, duration, t) ==
    IF RLeq(t, envelope.attack)
    THEN Ramp(Zero, envelope.attack, Zero, One)
    ELSE IF RLeq(t, envelope.decay)
    THEN Ramp(envelope.attack, RAdd(envelope.attack, envelope.decay),
              One, envelope.sustain)
    ELSE IF RLeq(t, RSub(duration, envelope.release))
    THEN Level(envelope.sustain)
    ELSE IF RLeq(t, duration)
    THEN Ramp(RSub(duration, envelope.release), duration, envelope.sustain, Zero)
    ELSE Level(Zero)

\* the branch Envelope::gain takes: the ramp it hands to lerp_clip, or the
\* level it returns
GainBranch(envelope, duration, t) ==
    IF RLess(t, envelope.attack)
    THEN Ramp(Zero, envelope.attack, Zero, One)
    ELSE IF RLess(t, envelope.decay)
    THEN Ramp(envelope.attack, RAdd(envelope.attack, envelope.decay),
              One, envelope.sustain)
    ELSE IF RLess(t, RSub(duration, envelope.release))
    THEN Level(envelope.sustain)
    ELSE IF RLess(t, duration)
    THEN Ramp(RSub(duration, envelope.release), duration, envelope.sustain, Zero)
    ELSE Level(Zero)

\* Envelope::gain
Envelope_gain(envelope, duration, t) ==
    LET b == GainBranch(envelope, duration, t)
    IN  IF b.ramp THEN lerp_clip(b.x0, b.x1, b.y0, b.y1, t) ELSE b.y0

\* Oscillator::sample
Oscillator_sample(oscillator, t) ==
    RMul(oscillator.tone.amplitude,
         Waveform_sample(oscillator.waveform, RFract(RMul(t, oscillator.tone.pitch))))

\* Oscillator::signal_function: the closure returned, as what it captures
signal_function(oscillator, pan, envelope) ==
    [oscillator |-> oscillator,
     c_pan |-> <<RSub(One, pan), pan>>,
     duration |-> oscillator.tone.duration,
     envelope |-> envelope]

\* the closure of Oscillator::signal_function applied to t
signal_function_call(f, t) ==
    LET val == RMul(Oscillator_sample(f.oscillator, t),
                    Envelope_gain(f.envelope, f.duration, t))
    IN  from_fn([channel \in 1..CHANNELS |-> RMul(val, f.c_pan[channel])])

(* ------------------------------- Signal ------------------------------- *)

\* Signal::new
Signal_new(sample_rate, duration, f) ==
    LET samples == RoundToUsize(RMul(duration, RInt(sample_rate)))
    IN  [sample_rate |-> sample_rate,
         frames |-> [i \in 1..samples |-> signal_function_call(f, Rat(i - 1, sample_rate))]]

\* mutant: the feedback stays on its own channel
PingPong_same(channel) == channel

\* the channel whose wet sample is fed back into `channel` (ping-pong), 1-based:
\* CHANNELS - 1 - channel for 0-based channels
PingPong(channel) == CHANNELS + 1 - channel

\* the loop of Signal::with_delay from iteration i = Len(dest_buffer) on: the
\* frames pushed to dest_buffer, or a panic (i % delay_length with delay_length = 0)
RECURSIVE DelayLoop(_, _, _, _, _)
DelayLoop(c, frames, delay_buffer, dest_buffer, dest_length) ==
    LET i == Len(dest_buffer)
    IN  IF i >= dest_length THEN [panicked |-> FALSE, frames |-> dest_buffer]
        ELSE IF c.delay_length = 0 THEN [panicked |-> TRUE, frames |-> dest_buffer]
        ELSE LET tram_ptr == i % c.delay_length
                 src == IF i < Len(frames) THEN frames[i + 1] ELSE RSilence
                 delay_effect == delay_buffer[tram_ptr + 1]
                 wet == from_fn([channel \in 1..CHANNELS |->
                            RAdd(RMul(c.wet_ratio, src[channel]), delay_effect[channel])])
                 out == from_fn([channel \in 1..CHANNELS |->
                            RAdd(RMul(c.dry_ratio, src[channel]), wet[channel])])
                 fed == from_fn([channel \in 1..CHANNELS |->
                            RMul(c.feedback, wet[PingPong(channel)])])
             IN  DelayLoop(c, frames,
                           [delay_buffer EXCEPT ![tram_ptr + 1] = fed],
                           Append(dest_buffer, out), dest_length)

\* dest_length of Signal::with_delay
DestLength(source_length, delay_length, tail_length) == source_length + tail_length

\* Signal::with_delay: the signal returned, or a panic
Signal_with_delay(signal, time, tail, wet_dry, feedback) ==
    LET source_length == Len(signal.frames)
        delay_length == RoundToUsize(RMul(time, RInt(signal.sample_rate)))
        tail_length == RoundToUsize(RMul(tail, RInt(signal.sample_rate)))
        dest_length == DestLength(source_length, delay_length, tail_length)
        r == DelayLoop([delay_length |-> delay_length, wet_ratio |-> wet_dry,
                        dry_ratio |-> RSub(One, wet_dry), feedback |-> feedback],
                       signal.frames,
                       [k \in 1..delay_length |-> RSilence],
                       <<>>, dest_length)
    IN  [panicked |-> r.panicked,
         signal |-> [sample_rate |-> signal.sample_rate, frames |-> r.frames]]

(* ---------------------------- SignalBuilder --------------------------- *)

\* Delay::default
Delay_default ==
    [time |-> Rat(1, 4), tail |-> One, wet_dry |-> One, feedback |-> Half]

\* SignalBuilder::from_oscillator
from_oscillator(oscillator) ==
    [oscillator |-> oscillator,
     envelope |-> Envelope_ramp_down(oscillator.tone.duration),
     sample_rate |-> SampleRate,
     pan |-> Half,
     delay |-> [Delay_default EXCEPT !.time = oscillator.tone.duration,
                                     !.tail = RMul(oscillator.tone.duration, RInt(4))]]

\* SignalBuilder::with_envelope
with_envelope(b, envelope) == [b EXCEPT !.envelope = envelope]

\* SignalBuilder::with_envelope_ramp_down
with_envelope_ramp_down(b) ==
    with_envelope(b, Envelope_ramp_down(b.oscillator.tone.duration))

\* SignalBuilder::with_oscillator
with_oscillator(b, oscillator) == [b EXCEPT !.oscillator = oscillator]

\* SignalBuilder::with_pan
with_pan(b, pan) == [b EXCEPT !.pan = pan]

\* SignalBuilder::with_delay
SignalBuilder_with_delay(b, delay) == [b EXCEPT !.delay = delay]

\* mutant: the fields not given are those of Delay::default()
with_delay_time_default(b, time) ==
    SignalBuilder_with_delay(b, [Delay_default EXCEPT !.time = time,
                                                      !.tail = RMul(time, RInt(8))])

\* SignalBuilder::with_delay_time
with_delay_time(b, time) ==
    SignalBuilder_with_delay(b, [b.delay EXCEPT !.time = time,
                                                !.tail = RMul(time, RInt(8))])

\* SignalBuilder::build: the signal built, or a panic
build(b) ==
    Signal_with_delay(
        Signal_new(b.sample_rate, b.oscillator.tone.duration,
                   signal_function(b.oscillator, b.pan, b.envelope)),
        b.delay.time, b.delay.tail, b.delay.wet_dry, b.delay.feedback)

\* SignalBuilder::record: the wavetable after the push and the index returned
record(b, table) ==
    LET r == build(b)
    IN  IF r.panicked
        THEN [panicked |-> TRUE, wave_table |-> table, index |-> Len(table)]
        ELSE [panicked |-> FALSE, wave_table |-> Append(table, r.signal),
              index |-> Len(table)]

(* ------------------- builder chains: specification -------------------- *)

Durations == {Ticks(n) : n \in 0..MaxTicks}

\* the oscillators of the model: silence and a square wave of a quarter of the
\* sample rate, of every duration
ModelOscillators ==
    {[tone |-> [pitch |-> Rat(SampleRate, 4), duration |-> d, amplitude |-> One],
      waveform |-> w] :
        d \in Durations,
        w \in {[kind |-> "Silence", param |-> Zero], [kind |-> "Square", param |-> Half]}}

\* the variables of the voice pool, unused while signals are built
MuxIdle ==
    /\ sample_map = <<>>
    /\ voices = <<>>
    /\ playing = {}
    /\ available = <<>>
    /\ buffer = <<>>
    /\ streak = 0
    /\ triggered = <<>>
    /\ cum = <<>>

\* let mut wave_table = Vec::new(), and the first chain's from_oscillator
InitBuild ==
    /\ MuxIdle
    /\ wave_table = <<>>
    /\ panicked = FALSE
    /\ \E oscillator \in ModelOscillators : builder = from_oscillator(oscillator)
    /\ last = [op |-> "from_oscillator", arg |-> 0]
    /\ delay_in = <<>>
    /\ delay_out = <<>>
    /\ AuxIdle

\* a chain starts: SignalBuilder::from_oscillator(oscillator)
FromOscillator(oscillator) ==
    /\ ~panicked
    /\ builder' = from_oscillator(oscillator)
    /\ last' = [op |-> "from_oscillator", arg |-> 0]
    /\ UNCHANGED <<wave_table, panicked, mux_vars, delay_in, delay_out, aux_vars>>

\* .with_delay_time(time)
WithDelayTime(time) ==
    /\ ~panicked
    /\ builder' = with_delay_time(builder, time)
    /\ last' = [op |-> "with_delay_time", arg |-> 0]
    /\ UNCHANGED <<wave_table, panicked, mux_vars, delay_in, delay_out, aux_vars>>

\* .record(&mut wave_table)
Record ==
    /\ ~panicked
    /\ Len(wave_table) < MaxRecorded
    /\ LET r == record(builder, wave_table)
       IN  /\ wave_table' = r.wave_table
           /\ panicked' = r.panicked
           /\ last' = [op |-> "record", arg |-> r.index]
    /\ UNCHANGED <<builder, mux_vars, delay_in, delay_out, aux_vars>>

NextBuild ==
    \/ \E oscillator \in ModelOscillators : FromOscillator(oscillator)
    \/ \E time \in Durations : WithDelayTime(time)
    \/ Record

SpecBuild == InitBuild /\ [][NextBuild]_vars

(* ------------------ Signal::with_delay: specification ----------------- *)

\* the frame holding x on channel ch and zero on the others
Impulse(ch, x) == from_fn([channel \in 1..CHANNELS |-> IF channel = ch THEN x ELSE Zero])

\* the frames a source signal is made of: silence and a unit impulse on either
\* channel
SourceFrames == {RSilence} \cup {Impulse(ch, One) : ch \in 1..CHANNELS}

SourceSignals ==
    UNION {{[sample_rate |-> SampleRate, frames |-> f] : f \in [1..n -> SourceFrames]} :
              n \in 0..MaxSource}

DelayInputs ==
    [signal : SourceSignals,
     time : Durations,
     tail : {Ticks(n) : n \in 0..MaxTailTicks},
     wet_dry : {Zero, One},
     feedback : {Zero, Half}]

InitDelay ==
    /\ MuxIdle
    /\ wave_table = <<>>
    /\ panicked = FALSE
    /\ builder = <<>>
    /\ last = [op |-> "input", arg |-> 0]
    /\ delay_in \in DelayInputs
    /\ delay_out = None
    /\ AuxIdle

\* delay_in.signal.with_delay(time, tail, wet_dry, feedback)
ApplyWithDelay ==
    /\ ~panicked
    /\ delay_out = None
    /\ LET r == Signal_with_delay(delay_in.signal, delay_in.time, delay_in.tail,
                                  delay_in.wet_dry, delay_in.feedback)
       IN  /\ panicked' = r.panicked
           /\ delay_out' = IF r.panicked THEN None ELSE Some(r.signal)
    /\ last' = [op |-> "with_delay", arg |-> 0]
    /\ UNCHANGED <<wave_table, builder, mux_vars, delay_in, aux_vars>>

NextDelay == ApplyWithDelay

SpecDelay == InitDelay /\ [][NextDelay]_vars

(* ---------------- wavetable signals: claims C9 and C10 ---------------- *)

\* L is x rounded to the nearest integer, halves away from zero, for x >= 0
IsRounded(L, x) == (2 * L - 1) * x[2] <= 2 * x[1] /\ 2 * x[1] < (2 * L + 1) * x[2]

\* seconds * sample_rate, in frames
InFrames(seconds, sample_rate) == RMul(seconds, RInt(sample_rate))

JustRecorded == last.op = "record" /\ ~panicked

\* the signal the last record call pushed
RecordedSignal == wave_table[last.arg + 1]

\* C9 as stated: every Signal stored in the wavetable by SignalBuilder::record has
\* length round(oscillator duration * sample_rate).
C9_LengthIsRoundedDuration ==
    JustRecorded
    => IsRounded(SignalLen(RecordedSignal),
                 InFrames(builder.oscillator.tone.duration, builder.sample_rate))

\* C9 amended: every Signal stored in the wavetable by SignalBuilder::record has
\* length round(oscillator duration * sample_rate) + round(delay tail *
\* sample_rate), and no later step changes a stored signal.
C9_RecordedLength ==
    /\ [](JustRecorded
          => \E source_length \in 0..SignalLen(RecordedSignal) :
               /\ IsRounded(source_length,
                            InFrames(builder.oscillator.tone.duration, builder.sample_rate))
               /\ IsRounded(SignalLen(RecordedSignal) - source_length,
                            InFrames(builder.delay.tail, builder.sample_rate)))
    /\ [][\A i \in 1..Len(wave_table) :
            Len(wave_table') >= i /\ wave_table'[i] = wave_table[i]]_vars

\* C9: a signal was recorded whose duration in frames is not whole, and which is
\* longer than its rounded duration by its tail
C9_Witness ==
    /\ JustRecorded
    /\ InFrames(builder.oscillator.tone.duration, builder.sample_rate)[2] # 1
    /\ RoundToUsize(InFrames(builder.delay.tail, builder.sample_rate)) > 0
    /\ SignalLen(RecordedSignal) > 1

\* C10 as stated: for every source signal and delay configuration,
\* Signal::with_delay completes and returns a signal of length source_length +
\* tail_length, whatever delay_length is, zero included.
C10_WithDelayCompletes ==
    last.op = "with_delay"
    => /\ ~panicked
       /\ delay_out # None
       /\ IsRounded(SignalLen(delay_out[1]) - SignalLen(delay_in.signal),
                    InFrames(delay_in.tail, delay_in.signal.sample_rate))

\* C10, what the code does: the call returns a signal of length source_length +
\* tail_length when delay_length >= 1 or the output is empty, and panics on the
\* remainder by zero otherwise.
C10_WithDelayUnlessZeroDelay ==
    last.op = "with_delay"
    => LET delay_length ==
               RoundToUsize(InFrames(delay_in.time, delay_in.signal.sample_rate))
           tail_length ==
               RoundToUsize(InFrames(delay_in.tail, delay_in.signal.sample_rate))
           dest_length == SignalLen(delay_in.signal) + tail_length
       IN  IF delay_length = 0 /\ dest_length > 0
           THEN panicked /\ delay_out = None
           ELSE /\ ~panicked
                /\ delay_out # None
                /\ SignalLen(delay_out[1]) = dest_length

(* ------------------ Signal::with_delay: claim C11 --------------------- *)

RECURSIVE RPow(_, _)
RPow(x, k) == IF k = 0 THEN One ELSE RMul(x, RPow(x, k - 1))

\* the source of the call is a unit impulse on channel ch at frame 0 followed by
\* silence
IsImpulseSource(ch) ==
    /\ SignalLen(delay_in.signal) >= 1
    /\ delay_in.signal.frames[1] = Impulse(ch, One)
    /\ \A i \in 2..SignalLen(delay_in.signal) : delay_in.signal.frames[i] = RSilence

\* delay_length of the call
DelayLength == RoundToUsize(InFrames(delay_in.time, delay_in.signal.sample_rate))

\* C11: for a source that is a unit impulse on one channel at frame 0 followed by
\* silence, with wet_dry = 1, feedback f and delay length D >= 1, frame 0 of the
\* output is the impulse, frame k*D (k >= 1) holds f^k on the opposite channel
\* for odd k and on the impulse's channel for even k, and every other frame is
\* zero.
C11_ImpulseResponse ==
    \A ch \in 1..CHANNELS :
        (/\ last.op = "with_delay"
         /\ IsImpulseSource(ch)
         /\ delay_in.wet_dry = One
         /\ DelayLength >= 1)
        => /\ ~panicked
           /\ delay_out # None
           /\ \A i \in 0..(SignalLen(delay_out[1]) - 1) :
                 delay_out[1].frames[i + 1] =
                     IF i % DelayLength = 0
                     THEN LET k == i \div DelayLength
                          IN  Impulse(IF k % 2 = 0 THEN ch ELSE CHANNELS + 1 - ch,
                                      RPow(delay_in.feedback, k))
                     ELSE RSilence

\* C11: an impulse on the second channel came back twice through a delay line
\* of one frame: 1/2 on the first channel, then 1/4 on the second
C11_Witness ==
    /\ last.op = "with_delay"
    /\ IsImpulseSource(2)
    /\ delay_in.wet_dry = One
    /\ delay_in.feedback = Half
    /\ DelayLength = 1
    /\ delay_out # None
    /\ SignalLen(delay_out[1]) >= 3
    /\ delay_out[1].frames[2] = <<Half, Zero>>
    /\ delay_out[1].frames[3] = <<Zero, Rat(1, 4)>>

(* --------- Envelope::gain and Waveform::sample: specification --------- *)

\* times in seconds, phases and waveform parameters of the model
Grid == {Rat(n, GridSteps) : n \in 0..GridSteps}

\* sustain levels of the model
Levels == {RNeg(Half), Zero, Half, One, RInt(2)}

\* the calls envelope.gain(duration, t) of the model
GainInputs ==
    [fn : {"gain"},
     envelope : [attack : Grid, decay : Grid, sustain : Levels, release : Grid],
     duration : Grid,
     t : Grid]

\* the calls waveform.sample(phase) of the model
SampleInputs ==
    [fn : {"sample"},
     waveform : [kind : {"Triangle", "Square", "Silence"}, param : Grid],
     phase : Grid]

InitSynth ==
    /\ MuxIdle
    /\ wave_table = <<>>
    /\ panicked = FALSE
    /\ builder = <<>>
    /\ delay_in = <<>>
    /\ delay_out = <<>>
    /\ last = [op |-> "input", arg |-> 0]
    /\ synth_in \in GainInputs \cup SampleInputs
    /\ synth_out = None
    /\ drain = <<>>
    /\ race = <<>>
    /\ with_arg = <<>>
    /\ with_out = <<>>
    /\ MathIdle

\* synth_in.envelope.gain(duration, t)
ApplyGain ==
    /\ synth_in.fn = "gain"
    /\ synth_out = None
    /\ synth_out' = Some(Envelope_gain(synth_in.envelope, synth_in.duration, synth_in.t))
    /\ last' = [op |-> "gain", arg |-> 0]
    /\ UNCHANGED <<wave_table, panicked, builder, mux_vars, delay_in, delay_out, synth_in, drain, race, with_vars,
                   math_vars>>

\* synth_in.waveform.sample(phase)
ApplySample ==
    /\ synth_in.fn = "sample"
    /\ synth_out = None
    /\ synth_out' = Some(Waveform_sample(synth_in.waveform, synth_in.phase))
    /\ last' = [op |-> "sample", arg |-> 0]
    /\ UNCHANGED <<wave_table, panicked, builder, mux_vars, delay_in, delay_out, synth_in, drain, race, with_vars,
                   math_vars>>

NextSynth == ApplyGain \/ ApplySample

SpecSynth == InitSynth /\ [][NextSynth]_vars

(* ------------------------ Envelope: claim C12 ------------------------- *)

\* the value the last gain call returned
Gain == synth_out[1]

\* C12 as stated: for every envelope and duration, gain(duration, 0) = 0 whenever
\* attack > 0, gain(duration, decay) = sustain, and gain(duration, duration) = 0.
C12_BoundaryValues ==
    last.op = "gain"
    => LET e == synth_in.envelope
       IN  /\ (synth_in.t = Zero /\ RLess(Zero, e.attack)) => Gain = Zero
           /\ synth_in.t = e.decay => Gain = e.sustain
           /\ synth_in.t = synth_in.duration => Gain = Zero

\* C12 amended: for every envelope and duration with non-negative fields,
\* gain(duration, 0) = 0 whenever attack > 0; gain(duration, decay) = sustain
\* whenever attack <= decay <= duration - release and decay < duration;
\* gain(duration, duration) = 0 whenever attack <= duration and decay <= duration.
C12_BoundaryValuesInOrder ==
    last.op = "gain"
    => LET e == synth_in.envelope
           d == synth_in.duration
       IN  /\ (synth_in.t = Zero /\ RLess(Zero, e.attack)) => Gain = Zero
           /\ (/\ synth_in.t = e.decay
               /\ RLeq(e.attack, e.decay)
               /\ RLeq(e.decay, RSub(d, e.release))
               /\ RLess(e.decay, d))
                => Gain = e.sustain
           /\ (/\ synth_in.t = d
               /\ RLeq(e.attack, d)
               /\ RLeq(e.decay, d))
                => Gain = Zero

\* C12: the gain was taken at t = decay, where the release ramp starts, of an
\* envelope with 0 < attack < decay = duration - release and sustain 1/2
C12_Witness ==
    /\ last.op = "gain"
    /\ synth_in.envelope = [attack |-> Rat(1, 4), decay |-> Half, sustain |-> Half,
                            release |-> Half]
    /\ synth_in.duration = One
    /\ synth_in.t = Half
    /\ Gain = Half

(* ------------------------ Waveform: claim C13 ------------------------- *)

\* the value the last sample call returned
Sample == synth_out[1]

\* C13: for a phase in [0, 1], Square(duty) returns -1 for phase < duty and +1
\* for phase > duty and for phase = duty; Triangle(slant), 0 < slant < 1, returns
\* -1 at phase 0, +1 at phase = slant and -1 at phase 1, is the line from -1 to
\* +1 on [0, slant) and the line from +1 to -1 on [slant, 1], and stays in
\* [-1, +1]; Silence returns 0.  (With slant = 0 or slant = 1 two of the three
\* boundary phases of the triangle coincide and the statement names two values
\* for one call.)
C13_WaveformValues ==
    last.op = "sample"
    => LET w == synth_in.waveform
           phase == synth_in.phase
       IN  /\ synth_out # None
           /\ w.kind = "Square"
                => /\ RLess(phase, w.param) => Sample = RNeg(One)
                   /\ RLess(w.param, phase) => Sample = One
                   /\ phase = w.param => Sample = One
           /\ (w.kind = "Triangle" /\ RLess(Zero, w.param) /\ RLess(w.param, One))
                => /\ phase = Zero => Sample = RNeg(One)
                   /\ phase = w.param => Sample = One
                   /\ phase = One => Sample = RNeg(One)
                   /\ RLess(phase, w.param)
                        => Sample = RSub(RDiv(RMul(RInt(2), phase), w.param), One)
                   /\ RLeq(w.param, phase)
                        => Sample = RSub(One, RDiv(RMul(RInt(2), RSub(phase, w.param)),
                                                   RSub(One, w.param)))
                   /\ RLeq(RNeg(One), Sample) /\ RLeq(Sample, One)
           /\ w.kind = "Silence" => Sample = Zero

\* C13: a square wave was sampled exactly at its duty cycle
C13_Witness ==
    /\ last.op = "sample"
    /\ synth_in.waveform = [kind |-> "Square", param |-> Half]
    /\ synth_in.phase = Half
    /\ Sample = One

(* --------------- wavetable and effect map: claim C14 ------------------ *)

\* C14: after any sequence of trigger and audio_requested calls the wavetable
\* holds the same signals with the same frames, and the effect map the same
\* entries, as immediately after Multiplexer::new.
C14_TablesUnchanged ==
    /\ wave_table = ModelWaveTable
    /\ sample_map = ModelSampleMap

\* C14: after an audio_requested call consumed part of one voice, a trigger has
\* just started another voice on the last free slot
C14_Witness ==
    /\ IsTrigger(last)
    /\ \E i \in playing : \E j \in playing :
          /\ cum[i] > 0
          /\ cum[j] = 0
          /\ voices[j].length > 0
          /\ available = <<>>
          /\ streak = 1

(* ------------------------ Envelope: claim C15 ------------------------- *)

\* the last gain call was made in the decay branch: attack <= t < decay
InDecayBranch ==
    /\ last.op = "gain"
    /\ RLeq(synth_in.envelope.attack, synth_in.t)
    /\ RLess(synth_in.t, synth_in.envelope.decay)

\* C15 as stated: for attack <= t < decay, gain(duration, t) is the linear ramp
\* from 1 at t = attack to sustain at t = decay (window [attack, decay)).
C15_DecayRampEndsAtDecay ==
    InDecayBranch
    => LET e == synth_in.envelope
       IN  Gain = RAdd(One, RMul(RSub(e.sustain, One),
                                 RDiv(RSub(synth_in.t, e.attack),
                                      RSub(e.decay, e.attack))))

\* C15, what the code does: for attack <= t < decay the gain is the ramp from 1
\* at t = attack towards sustain at t = attack + decay, cut off at t = decay.
C15_DecayRampEndsAtAttackPlusDecay ==
    InDecayBranch
    => LET e == synth_in.envelope
       IN  Gain = RAdd(One, RMul(RSub(e.sustain, One),
                                 RDiv(RSub(synth_in.t, e.attack), e.decay)))

(* ------------- repeated pulls: specification and claim C16 ------------ *)

\* the caller stops triggering and from now on pulls buffers of buffer_len frames
StopTriggering(buffer_len) ==
    /\ ~panicked
    /\ drain = None
    /\ drain' = Some([len |-> buffer_len, calls |-> 0,
                      fresh |-> {i \in playing : voices[i].position = 0}])
    /\ UNCHANGED <<wave_table, panicked, last, builder, mux_vars, delay_in, delay_out,
                   synth_vars, race, with_vars,
                   math_vars>>

\* audio_requested once the caller has stopped triggering
DrainPull(fill) ==
    /\ drain # None
    /\ AudioRequestedCall(drain[1].len, fill)
    /\ drain' = Some([drain[1] EXCEPT !.calls = Min(@ + 1, MaxLen + 1)])

\* audio_requested on a non-empty buffer
Pull ==
    \/ \E n \in 1..MaxBuf, fill \in BufferFills : drain = None /\ AudioRequested(n, fill)
    \/ \E fill \in BufferFills : DrainPull(fill)

NextLive ==
    \/ \E effect \in Effects : drain = None /\ Trigger(effect)
    \/ \E n \in 0..MaxBuf, fill \in BufferFills : drain = None /\ AudioRequested(n, fill)
    \/ \E buffer_len \in 1..MaxBuf : StopTriggering(buffer_len)
    \/ \E fill \in BufferFills : DrainPull(fill)

\* the caller keeps calling audio_requested with non-empty buffers
SpecLive == Init /\ [][NextLive]_vars /\ WF_vars(Pull)

\* the least number of buffers of b frames that hold l frames
CeilDiv(l, b) == (l + b - 1) \div b

\* C16: while audio_requested keeps being called with non-empty buffers, every
\* playing voice is eventually off the playing set and on the available stack;
\* once the caller has stopped triggering the playing set becomes empty and stays
\* so; a voice of length L >= 1 at position 0 when pulls of constant length B
\* start leaves the playing set on the ceil(L / B)-th of them; a call with an
\* empty buffer leaves every voice with frames remaining as it was, and playing.
C16_EventuallyReturned ==
    /\ \A i \in 0..(MaxVoices - 1) :
          (i \in playing) ~> (i \notin playing /\ i \in Range(available))
    /\ (drain # None) ~> [](playing = {})
    /\ [][\A i \in Slots :
            /\ (/\ drain # None /\ IsAudio(last')
                /\ i \in playing /\ i \in drain[1].fresh /\ voices[i].length >= 1)
                 => ((i \notin playing')
                       <=> (drain'[1].calls = CeilDiv(voices[i].length, drain[1].len)))
            /\ (/\ IsAudio(last') /\ last'.arg = 0
                /\ i \in playing /\ voices[i].position < voices[i].length)
                 => (i \in playing' /\ voices'[i] = voices[i])]_vars

\* C16: the longest signal, started just before the caller stopped triggering,
\* has ended on the second pull of two frames, and nothing is playing any more
C16_Witness ==
    /\ drain # None
    /\ drain[1].len = 2
    /\ drain[1].calls = 2
    /\ playing = {}
    /\ \E i \in drain[1].fresh :
          /\ voices[i].length = MaxLen
          /\ voices[i].position = MaxLen
          /\ i \in Range(available)

(* ------ two threads on one Multiplexer: specification and claim C17 ---- *)

\* the thread that calls trigger, outside a call
TriggerIdle ==
    [pc |-> "idle", effect |-> 0, voice |-> VoiceDefault, voice_index |-> 0,
     before |-> None]

\* the thread that calls audio_requested, outside a call
AudioIdle ==
    [pc |-> "idle", buffer |-> <<>>, snapshot |-> {}, cursor |-> -1,
     voice_index |-> 0, voice |-> VoiceDefault, terminated |-> {},
     before |-> None]

\* Multiplexer::new(_, max_voices), shared by two threads; serialised says
\* whether a call excludes the other thread until it returns
InitRace ==
    \E max_voices \in 0..MaxVoices, serialised \in BOOLEAN :
        /\ wave_table = ModelWaveTable
        /\ sample_map = ModelSampleMap
        /\ voices = NewVoices(max_voices)
        /\ playing = {}
        /\ available = NewAvailable(max_voices)
        /\ buffer = <<>>
        /\ panicked = FALSE
        /\ last = [op |-> "new", arg |-> max_voices]
        /\ streak = 0
        /\ triggered = [i \in 0..(max_voices - 1) |-> None]
        /\ cum = [i \in 0..(max_voices - 1) |-> 0]
        /\ builder = <<>>
        /\ delay_in = <<>>
        /\ delay_out = <<>>
        /\ synth_in = <<>>
        /\ synth_out = <<>>
        /\ drain = <<>>
        /\ race = Some([serialised |-> serialised, trig |-> TriggerIdle,
                        audio |-> AudioIdle])
        /\ with_arg = <<>>
        /\ with_out = <<>>
        /\ MathIdle

\* what no step of either thread touches
race_frame == <<wave_table, sample_map, last, streak, cum, builder, delay_in, delay_out,
                synth_vars, drain, with_vars,
                   math_vars>>

\* mutant: a call begins whatever the other thread is doing
CanBegin_always(other) == TRUE

\* a call may begin: calls are not serialised, or the other thread is outside one
CanBegin(other) == ~race[1].serialised \/ other.pc = "idle"

\* the pool at the beginning of a call, kept when calls are serialised
Before == IF race[1].serialised THEN Some(pool) ELSE None

\* trigger, up to the call of allocate_voice: the map lookup and Voice::new
TriggerLookup(effect) ==
    /\ race # None /\ ~panicked
    /\ race[1].trig.pc = "idle"
    /\ CanBegin(race[1].audio)
    /\ IF effect \notin DOMAIN sample_map
       THEN UNCHANGED <<race, panicked>>
       ELSE LET signal_index == sample_map[effect]
            IN  IF signal_index >= Len(wave_table)
                THEN panicked' = TRUE /\ UNCHANGED race
                ELSE /\ race' = Some([race[1] EXCEPT !.trig =
                            [pc |-> "pop", effect |-> effect,
                             voice |-> VoiceNew(signal_index,
                                                SignalLen(wave_table[signal_index + 1])),
                             voice_index |-> 0, before |-> Before]])
                     /\ UNCHANGED panicked
    /\ UNCHANGED <<voices, playing, available, buffer, triggered, race_frame>>

\* allocate_voice: let allocated = self.available_voice_index.pop()
AllocatePop ==
    /\ race # None /\ ~panicked
    /\ race[1].trig.pc = "pop"
    /\ IF available = <<>>
       THEN /\ race' = Some([race[1] EXCEPT !.trig = TriggerIdle])
            /\ UNCHANGED <<available, triggered>>
       ELSE LET voice_index == available[Len(available)]
            IN  /\ available' = SubSeq(available, 1, Len(available) - 1)
                /\ triggered' = [triggered EXCEPT ![voice_index] =
                                    Some(race[1].trig.effect)]
                /\ race' = Some([race[1] EXCEPT !.trig.pc = "insert",
                                                !.trig.voice_index = voice_index])
    /\ UNCHANGED <<voices, playing, buffer, panicked, race_frame>>

\* allocate_voice: self.playing_voice_index.insert(voice_index)
AllocateInsert ==
    /\ race # None /\ ~panicked
    /\ race[1].trig.pc = "insert"
    /\ playing' = playing \cup {race[1].trig.voice_index}
    /\ race' = Some([race[1] EXCEPT !.trig.pc = "write"])
    /\ UNCHANGED <<voices, available, buffer, panicked, triggered, race_frame>>

\* allocate_voice: self.voices[voice_index] = voice, and the return of trigger
AllocateWrite ==
    /\ race # None /\ ~panicked
    /\ race[1].trig.pc = "write"
    /\ LET voice_index == race[1].trig.voice_index
       IN  IF voice_index \in DOMAIN voices
           THEN /\ voices' = [voices EXCEPT ![voice_index] = race[1].trig.voice]
                /\ UNCHANGED panicked
           ELSE panicked' = TRUE /\ UNCHANGED voices
    /\ race' = Some([race[1] EXCEPT !.trig = TriggerIdle])
    /\ UNCHANGED <<playing, available, buffer, triggered, race_frame>>

\* audio_requested, up to the loop: the buffer is cleared, terminated_voices is
\* empty, the iterator over the playing set is made (it holds the set's first
\* block of bits from then on)
AudioBegin(n, fill) ==
    /\ race # None /\ ~panicked
    /\ race[1].audio.pc = "idle"
    /\ CanBegin(race[1].trig)
    /\ race' = Some([race[1] EXCEPT !.audio =
            [pc |-> "next", buffer |-> equilibrium(InputBuffer(n, fill)),
             snapshot |-> playing, cursor |-> -1, voice_index |-> 0,
             voice |-> VoiceDefault, terminated |-> {}, before |-> Before]])
    /\ UNCHANGED <<voices, playing, available, buffer, panicked, triggered, race_frame>>

\* for voice_index in &self.playing_voice_index: the next slot above the last
\* one visited, read from the bits the iterator holds or from the set as it is
\* now (a set written by the other thread during the loop may be seen either way)
SweepNext ==
    /\ race # None /\ ~panicked
    /\ race[1].audio.pc = "next"
    /\ \E view \in {race[1].audio.snapshot, playing} :
           LET todo == {i \in view : i > race[1].audio.cursor}
           IN  IF todo = {}
               THEN race' = Some([race[1] EXCEPT !.audio.pc = "free",
                                                 !.audio.cursor = -1])
               ELSE race' = Some([race[1] EXCEPT !.audio.pc = "clone",
                                                 !.audio.cursor = MinOf(todo),
                                                 !.audio.voice_index = MinOf(todo)])
    /\ UNCHANGED <<voices, playing, available, buffer, panicked, triggered,
                   race_frame>>

\* let voice = self.voices[voice_index].clone(); if let Some(..) = voice.signal
SweepClone ==
    /\ race # None /\ ~panicked
    /\ race[1].audio.pc = "clone"
    /\ LET voice_index == race[1].audio.voice_index
       IN  IF voice_index \notin DOMAIN voices
           THEN panicked' = TRUE /\ UNCHANGED race
           ELSE /\ race' = Some([race[1] EXCEPT
                            !.audio.voice = voices[voice_index],
                            !.audio.pc = IF voices[voice_index].signal = None
                                         THEN "next" ELSE "mix"])
                /\ UNCHANGED panicked
    /\ UNCHANGED <<voices, playing, available, buffer, triggered, race_frame>>

\* the body of the if: the frames of the cloned voice are mixed into the buffer
\* and self.voices[voice_index] is advanced by the length computed from the clone
SweepMix ==
    /\ race # None /\ ~panicked
    /\ race[1].audio.pc = "mix"
    /\ LET voice == race[1].audio.voice
           voice_index == race[1].audio.voice_index
           signal_index == voice.signal[1]
       IN  IF \/ signal_index >= Len(wave_table)
              \/ voice.position > SignalLen(wave_table[signal_index + 1])
              \/ voice.position > voice.length
           THEN panicked' = TRUE /\ UNCHANGED <<race, voices>>
           ELSE LET frames == wave_table[signal_index + 1].frames
                    len == Min(Len(race[1].audio.buffer), remaining(voice))
                IN  IF voice.position + len > Len(frames)
                    THEN panicked' = TRUE /\ UNCHANGED <<race, voices>>
                    ELSE LET adv == advance(voices[voice_index], len)
                         IN  /\ voices' = [voices EXCEPT ![voice_index] = adv.voice]
                             /\ race' = Some([race[1] EXCEPT
                                    !.audio.buffer = MixInto(@, frames, voice.position, len),
                                    !.audio.terminated = IF adv.eof
                                                         THEN @ \cup {voice_index}
                                                         ELSE @,
                                    !.audio.pc = "next"])
                             /\ UNCHANGED panicked
    /\ UNCHANGED <<playing, available, buffer, triggered, race_frame>>

\* for voice_index in &terminated_voices: the next slot, or the return of
\* audio_requested with the caller's buffer filled
FreeNext ==
    /\ race # None /\ ~panicked
    /\ race[1].audio.pc = "free"
    /\ LET todo == {i \in race[1].audio.terminated : i > race[1].audio.cursor}
       IN  IF todo = {}
           THEN /\ race' = Some([race[1] EXCEPT !.audio = AudioIdle])
                /\ buffer' = race[1].audio.buffer
           ELSE /\ race' = Some([race[1] EXCEPT !.audio.pc = "free_signal",
                                                !.audio.cursor = MinOf(todo),
                                                !.audio.voice_index = MinOf(todo)])
                /\ UNCHANGED buffer
    /\ UNCHANGED <<voices, playing, available, panicked, triggered, race_frame>>

\* free_voice: self.voices[voice_index].signal = None
FreeSignal ==
    /\ race # None /\ ~panicked
    /\ race[1].audio.pc = "free_signal"
    /\ voices' = [voices EXCEPT ![race[1].audio.voice_index].signal = None]
    /\ race' = Some([race[1] EXCEPT !.audio.pc = "free_remove"])
    /\ UNCHANGED <<playing, available, buffer, panicked, triggered, race_frame>>

\* free_voice: self.playing_voice_index.remove(voice_index)
FreeRemove ==
    /\ race # None /\ ~panicked
    /\ race[1].audio.pc = "free_remove"
    /\ playing' = playing \ {race[1].audio.voice_index}
    /\ race' = Some([race[1] EXCEPT !.audio.pc = "free_push"])
    /\ UNCHANGED <<voices, available, buffer, panicked, triggered, race_frame>>

\* free_voice: self.available_voice_index.push(voice_index)
FreePush ==
    /\ race # None /\ ~panicked
    /\ race[1].audio.pc = "free_push"
    /\ available' = Append(available, race[1].audio.voice_index)
    /\ race' = Some([race[1] EXCEPT !.audio.pc = "free"])
    /\ UNCHANGED <<voices, playing, buffer, panicked, triggered, race_frame>>

NextRace ==
    \/ \E effect \in Effects : TriggerLookup(effect)
    \/ AllocatePop
    \/ AllocateInsert
    \/ AllocateWrite
    \/ \E n \in 0..MaxBuf, fill \in BufferFills : AudioBegin(n, fill)
    \/ SweepNext
    \/ SweepClone
    \/ SweepMix
    \/ FreeNext
    \/ FreeSignal
    \/ FreeRemove
    \/ FreePush

SpecRace == InitRace /\ [][NextRace]_vars

\* the pool invariants: playing set and available stack partition the slots,
\* and the record of a playing slot is the voice of the effect triggered on it
PoolInvariants ==
    /\ playing \cup Range(available) = Slots
    /\ playing \cap Range(available) = {}
    /\ Cardinality(Range(available)) = Len(available)
    /\ \A i \in playing :
          /\ triggered[i] # None
          /\ voices[i].signal = Some(sample_map[triggered[i][1]])
          /\ voices[i].length = TriggeredLen(i)

\* C17: when every call runs to its end before the other thread may begin one,
\* the two threads are never inside a call together, every state between calls
\* satisfies the pool invariants, and the steps of a call leave what the call as
\* a whole computes.  (That the interleaved steps reach a state violating the
\* invariants is C17_Witness.)
C17_SerialisedCallsKeepInvariants ==
    /\ [](race[1].serialised
            => /\ race[1].trig.pc = "idle" \/ race[1].audio.pc = "idle"
               /\ (race[1].trig.pc = "idle" /\ race[1].audio.pc = "idle")
                    => PoolInvariants /\ ~panicked)
    /\ [][race[1].serialised
            => /\ (race[1].trig.pc # "idle" /\ race'[1].trig.pc = "idle")
                    => pool' = trigger(wave_table, sample_map, race[1].trig.before[1],
                                       race[1].trig.effect).pool
               /\ (race[1].audio.pc # "idle" /\ race'[1].audio.pc = "idle")
                    => LET r == audio_requested(wave_table, race[1].audio.before[1],
                                                race[1].audio.buffer)
                       IN  pool' = r.pool /\ buffer' = r.buffer]_vars

\* C17: calls are not serialised; trigger has popped a slot once played and
\* freed and inserted it into the playing set, and has not yet written its voice;
\* audio_requested, begun in between, has visited that slot, found no signal in
\* its record and passed over it: the pool invariants do not hold
C17_Witness ==
    /\ ~race[1].serialised
    /\ race[1].trig.pc = "write"
    /\ race[1].trig.voice_index \in playing
    /\ voices[race[1].trig.voice_index] # race[1].trig.voice
    /\ voices[race[1].trig.voice_index].length > 0
    /\ race[1].audio.pc = "next"
    /\ race[1].audio.cursor = race[1].trig.voice_index
    /\ race[1].audio.voice = voices[race[1].trig.voice_index]
    /\ race[1].audio.voice.signal = None
    /\ ~PoolInvariants

(* ------------ with_X operations: specification and claim C18 ---------- *)

\* the envelopes, pans and delays given to the with_X operations of the model
WithEnvelopes ==
    {Envelope_default,
     [attack |-> Rat(1, 4), decay |-> Half, sustain |-> Half, release |-> Half]}

WithPans == {Rat(1, 4), One}

WithDelays ==
    {Delay_default,
     [time |-> Ticks(2), tail |-> Ticks(1), wet_dry |-> Half, feedback |-> Zero]}

\* SignalBuilder::from_oscillator(oscillator), bound to a name
InitWith ==
    /\ MuxIdle
    /\ wave_table = <<>>
    /\ panicked = FALSE
    /\ \E oscillator \in ModelOscillators : builder = from_oscillator(oscillator)
    /\ last = [op |-> "from_oscillator", arg |-> 0]
    /\ delay_in = <<>>
    /\ delay_out = <<>>
    /\ synth_in = <<>>
    /\ synth_out = <<>>
    /\ drain = <<>>
    /\ race = <<>>
    /\ with_arg = None
    /\ with_out = None
    /\ MathIdle

\* what a with_X call and the binding of its result leave alone
with_frame == <<wave_table, panicked, last, mux_vars, delay_in, delay_out,
                synth_vars, drain, race, math_vars>>

\* let out = builder.with_envelope(envelope)
CallWithEnvelope(envelope) ==
    /\ with_out' = Some(with_envelope(builder, envelope))
    /\ with_arg' = Some([op |-> "with_envelope", arg |-> envelope])
    /\ UNCHANGED <<builder, with_frame>>

\* let out = builder.with_envelope_ramp_down()
CallWithEnvelopeRampDown ==
    /\ with_out' = Some(with_envelope_ramp_down(builder))
    /\ with_arg' = Some([op |-> "with_envelope_ramp_down", arg |-> 0])
    /\ UNCHANGED <<builder, with_frame>>

\* let out = builder.with_oscillator(oscillator)
CallWithOscillator(oscillator) ==
    /\ with_out' = Some(with_oscillator(builder, oscillator))
    /\ with_arg' = Some([op |-> "with_oscillator", arg |-> oscillator])
    /\ UNCHANGED <<builder, with_frame>>

\* let out = builder.with_pan(pan)
CallWithPan(pan) ==
    /\ with_out' = Some(with_pan(builder, pan))
    /\ with_arg' = Some([op |-> "with_pan", arg |-> pan])
    /\ UNCHANGED <<builder, with_frame>>

\* let out = builder.with_delay(delay)
CallWithDelay(delay) ==
    /\ with_out' = Some(SignalBuilder_with_delay(builder, delay))
    /\ with_arg' = Some([op |-> "with_delay", arg |-> delay])
    /\ UNCHANGED <<builder, with_frame>>

\* let out = builder.with_delay_time(time)
CallWithDelayTime(time) ==
    /\ with_out' = Some(with_delay_time(builder, time))
    /\ with_arg' = Some([op |-> "with_delay_time", arg |-> time])
    /\ UNCHANGED <<builder, with_frame>>

\* let builder = out: the next call is made on the result of the last one
Rebind ==
    /\ with_out # None
    /\ builder' = with_out[1]
    /\ with_out' = None
    /\ with_arg' = None
    /\ UNCHANGED with_frame

NextWith ==
    \/ \E envelope \in WithEnvelopes : CallWithEnvelope(envelope)
    \/ CallWithEnvelopeRampDown
    \/ \E oscillator \in ModelOscillators : CallWithOscillator(oscillator)
    \/ \E pan \in WithPans : CallWithPan(pan)
    \/ \E delay \in WithDelays : CallWithDelay(delay)
    \/ \E time \in Durations : CallWithDelayTime(time)
    \/ Rebind

SpecWith == InitWith /\ [][NextWith]_vars

\* the fields of SignalBuilder
BuilderFields == {"oscillator", "envelope", "pan", "sample_rate", "delay"}

\* builders a and b hold the same value in every field but those of named
SameBut(a, b, named) ==
    /\ DOMAIN a = BuilderFields
    /\ DOMAIN b = BuilderFields
    /\ \A field \in BuilderFields \ named : a[field] = b[field]

\* C18: a with_X call returns a builder in which the field X names holds the
\* argument (for with_envelope_ramp_down the envelope 0, 0, 1 with the
\* oscillator's duration as release; for with_delay_time the receiver's delay
\* with the time given and eight times that time as tail, wet_dry and feedback
\* kept) and every other field holds what the receiver holds; the receiver
\* holds after the call what it held before.
C18_OnlyNamedFieldReplaced ==
    [][with_arg' # None
        => LET call == with_arg'[1]
               out == with_out'[1]
           IN  /\ builder' = builder
               /\ call.op = "with_envelope"
                    => SameBut(out, builder, {"envelope"}) /\ out.envelope = call.arg
               /\ call.op = "with_envelope_ramp_down"
                    => /\ SameBut(out, builder, {"envelope"})
                       /\ out.envelope = [attack |-> Zero, decay |-> Zero,
                                          sustain |-> One,
                                          release |-> builder.oscillator.tone.duration]
               /\ call.op = "with_oscillator"
                    => SameBut(out, builder, {"oscillator"}) /\ out.oscillator = call.arg
               /\ call.op = "with_pan"
                    => SameBut(out, builder, {"pan"}) /\ out.pan = call.arg
               /\ call.op = "with_delay"
                    => SameBut(out, builder, {"delay"}) /\ out.delay = call.arg
               /\ call.op = "with_delay_time"
                    => /\ SameBut(out, builder, {"delay"})
                       /\ out.delay.time = call.arg
                       /\ out.delay.tail = RMul(RInt(8), call.arg)
                       /\ out.delay.wet_dry = builder.delay.wet_dry
                       /\ out.delay.feedback = builder.delay.feedback]_vars

\* C18: with_delay_time has returned a builder with a new delay time, made from
\* a receiver whose oscillator, envelope, pan and delay had all been replaced
\* since from_oscillator, by values that are not the defaults
C18_Witness ==
    /\ with_arg # None
    /\ with_arg[1].op = "with_delay_time"
    /\ with_out[1].delay.time # builder.delay.time
    /\ builder.delay.wet_dry = Half
    /\ builder.delay.feedback = Zero
    /\ builder.pan = One
    /\ builder.envelope.attack = Rat(1, 4)
    /\ builder.oscillator.waveform.kind = "Square"
    /\ builder.oscillator.tone.duration # builder.envelope.release
    /\ with_out[1] # builder

(* ------------------- order of allocation: claim C19 ------------------- *)

\* the elements of the set S of slots, in ascending order
Ascending(S) ==
    CHOOSE s \in [1..Cardinality(S) -> S] :
        \A a, b \in 1..Cardinality(S) : a < b => s[a] < s[b]

MaxOf(S) == CHOOSE x \in S : \A y \in S : y <= x

\* C19: a trigger that starts a voice takes the slot on top of the available
\* stack, the last one pushed, and pops it; as long as no slot of the stack has
\* ever been played (so from Multiplexer::new on) the slots playing are
\* 0..k-1 and that slot is k; an audio_requested call pushes the slots whose
\* voices it ended on top of the stack in ascending order, so that the highest
\* of them is on top for the next trigger.
C19_LifoAllocation ==
    [][/\ (IsTrigger(last') /\ playing' # playing)
            => /\ available # <<>>
               /\ playing' = playing \cup {available[Len(available)]}
               /\ available[Len(available)] \notin playing
               /\ available' = SubSeq(available, 1, Len(available) - 1)
               /\ (\A j \in Range(available) : triggered[j] = None)
                    => /\ playing = 0..(Cardinality(playing) - 1)
                       /\ available[Len(available)] = Cardinality(playing)
       /\ IsAudio(last')
            => /\ playing' \subseteq playing
               /\ available' = available \o Ascending(playing \ playing')
               /\ (playing' # playing)
                    => available'[Len(available')] = MaxOf(playing \ playing')]_vars

\* C19: an audio_requested call has mixed the one-frame voices of slots 0 and 1
\* into the first frame and ended both: they are on the stack in that order,
\* slot 1 on top
C19_Witness ==
    /\ IsAudio(last)
    /\ Cardinality(Slots) >= 2
    /\ triggered[0] = Some(2)
    /\ triggered[1] = Some(2)
    /\ buffer # <<>>
    /\ buffer[1][1] = 2 * SampleValue(1, 0, 1)
    /\ {0, 1} \cap playing = {}
    /\ Len(available) >= 2
    /\ available[Len(available) - 1] = 0
    /\ available[Len(available)] = 1

(* ---------------- signal references in bounds: claim C20 --------------- *)

\* C20: in every reachable state the record of a slot holds a signal index
\* exactly when the slot is in the playing set; the index of a playing slot is
\* an index of the wavetable and the voice's length is the length of that
\* signal; so the frames audio_requested would read for a buffer of any length
\* n, those from position up to position + min(n, remaining), lie within the
\* signal, and no call has panicked.
C20_SignalReferencesInBounds ==
    /\ \A i \in Slots : (voices[i].signal # None) <=> (i \in playing)
    /\ \A i \in playing :
          /\ voices[i].signal[1] \in 0..(Len(wave_table) - 1)
          /\ voices[i].length = SignalLen(wave_table[voices[i].signal[1] + 1])
          /\ voices[i].position <= voices[i].length
          /\ \A n \in 0..(MaxLen + MaxBuf + 1) :
                voices[i].position + Min(n, remaining(voices[i]))
                    <= SignalLen(wave_table[voices[i].signal[1] + 1])
    /\ ~panicked

\* C20: a pull of MaxBuf frames has ended a voice that had fewer frames left
\* than the buffer holds, and has advanced another one that is still playing
C20_Witness ==
    /\ IsAudio(last)
    /\ last.arg = MaxBuf
    /\ \E i \in playing : 0 < voices[i].position /\ voices[i].position < voices[i].length
    /\ \E j \in Slots \ playing :
          /\ triggered[j] # None
          /\ voices[j].signal = None
          /\ voices[j].position = voices[j].length
          /\ voices[j].length % MaxBuf # 0

(* ------------------- ramps of the envelope: claim C21 ------------------ *)

\* the branch taken by the call synth_in.envelope.gain(duration, t)
Branch == GainBranch(synth_in.envelope, synth_in.duration, synth_in.t)

\* C21 as stated: for every envelope with attack, decay, release >= 0 and every
\* t >= 0 and duration, a ramp that gain evaluates has x1 - x0 > 0, and the
\* gain lies between 0 and max(1, sustain).
C21_RampsHaveWidthAndGainInRange ==
    last.op = "gain"
    => /\ Branch.ramp => RLess(Branch.x0, Branch.x1)
       /\ RLeq(Zero, Gain)
       /\ RLeq(Gain, RMax(One, synth_in.envelope.sustain))

\* C21 amended: for every envelope with attack, decay, release >= 0 and every
\* t >= 0 and duration, a ramp that gain evaluates has x1 - x0 > 0 and the gain
\* is the clamped interpolation over it; the gain lies between min(0, sustain)
\* and max(1, sustain), so between 0 and max(1, sustain) when sustain >= 0.
C21_RampsHaveWidthAndGainInSustainRange ==
    last.op = "gain"
    => /\ Branch.ramp
            => /\ RLess(Branch.x0, Branch.x1)
               /\ Gain = RAdd(Branch.y0,
                              RMul(RSub(Branch.y1, Branch.y0),
                                   RMax(Zero, RMin(One,
                                        RDiv(RSub(synth_in.t, Branch.x0),
                                             RSub(Branch.x1, Branch.x0))))))
       /\ RLeq(RMin(Zero, synth_in.envelope.sustain), Gain)
       /\ RLeq(Gain, RMax(One, synth_in.envelope.sustain))
       /\ RLeq(Zero, synth_in.envelope.sustain) => RLeq(Zero, Gain)

\* C21: gain has evaluated the release ramp of an envelope whose attack + decay
\* and whose release both exceed the duration, from a sustain level above 1
C21_Witness ==
    /\ last.op = "gain"
    /\ Branch.ramp
    /\ Branch.x1 = synth_in.duration
    /\ RLess(Branch.x0, Zero)
    /\ RLess(synth_in.duration,
             RAdd(synth_in.envelope.attack, synth_in.envelope.decay))
    /\ RLess(synth_in.duration, synth_in.envelope.release)
    /\ synth_in.envelope.sustain = RInt(2)
    /\ RLess(Zero, Gain)

(* ------------- MovingAverage: specification and claim C22 ------------- *)

\* MovingAverage::new; values[i] of the code is values[i + 1] here
MovingAverage_new(window_size) ==
    [ptr |-> 0, count |-> 0, last |-> Zero, acc |-> Zero,
     values |-> [k \in 1..window_size |-> Zero]]

\* mutant: the value that leaves the window is not taken off acc
smooth_keeps_oldest(m, value) ==
    LET len == Len(m.values)
    IN  IF len = 0
        THEN [self |-> m, result |-> Zero, panicked |-> TRUE]
        ELSE LET count == IF m.count < len THEN m.count + 1 ELSE m.count
                 acc == RAdd(m.acc, value)
                 result == RDiv(acc, RInt(count))
             IN  [self |-> [ptr |-> (m.ptr + 1) % len, count |-> count,
                            last |-> result, acc |-> acc,
                            values |-> [m.values EXCEPT ![m.ptr + 1] = value]],
                  result |-> result, panicked |-> FALSE]

\* MovingAverage::smooth: the object after the call and the value returned.
\* With an empty values the first index values[ptr] is out of bounds.
smooth(m, value) ==
    LET len == Len(m.values)
    IN  IF len = 0
        THEN [self |-> m, result |-> Zero, panicked |-> TRUE]
        ELSE LET count == IF m.count < len THEN m.count + 1 ELSE m.count
                 acc == RAdd(IF m.count < len THEN m.acc
                             ELSE RSub(m.acc, m.values[m.ptr + 1]),
                             value)
                 result == RDiv(acc, RInt(count))
             IN  [self |-> [ptr |-> (m.ptr + 1) % len, count |-> count,
                            last |-> result, acc |-> acc,
                            values |-> [m.values EXCEPT ![m.ptr + 1] = value]],
                  result |-> result, panicked |-> FALSE]

\* the values passed to smooth in the model
SmoothValues == {RNeg(One), Zero, RInt(2)}

\* the variables of the other components, unused by the helpers of core::math
NoAudio ==
    /\ MuxIdle
    /\ wave_table = <<>>
    /\ builder = <<>>
    /\ delay_in = <<>>
    /\ delay_out = <<>>
    /\ synth_in = <<>>
    /\ synth_out = <<>>
    /\ drain = <<>>
    /\ race = <<>>
    /\ with_arg = <<>>
    /\ with_out = <<>>

no_audio == <<wave_table, builder, mux_vars, delay_in, delay_out, synth_vars, drain,
              race, with_vars>>

\* MovingAverage::new(window_size)
InitAverage ==
    \E window_size \in 0..MaxWindow :
        /\ NoAudio
        /\ panicked = FALSE
        /\ last = [op |-> "new", arg |-> window_size]
        /\ average = Some(MovingAverage_new(window_size))
        /\ smoothed = <<>>
        /\ inertial = <<>>

\* average.smooth(value)
Smooth(value) ==
    /\ ~panicked
    /\ Len(smoothed) < MaxSmooth
    /\ LET r == smooth(average[1], value)
       IN  /\ average' = Some(r.self)
           /\ panicked' = r.panicked
           /\ last' = [op |-> "smooth", arg |-> r.result]
    /\ smoothed' = Append(smoothed, value)
    /\ UNCHANGED <<inertial, no_audio>>

NextAverage == \E value \in SmoothValues : Smooth(value)

SpecAverage == InitAverage /\ [][NextAverage]_vars

\* the sum of the last n elements of the sequence s
RECURSIVE SumLast(_, _)
SumLast(s, n) ==
    IF n = 0 THEN Zero ELSE RAdd(s[Len(s)], SumLast(SubSeq(s, 1, Len(s) - 1), n - 1))

\* C22: for a MovingAverage of window size w >= 1, after k >= 1 calls of smooth
\* count = min(k, w), ptr = k mod w, acc is the sum of the last min(k, w) values
\* passed, and the k-th call returned that sum divided by min(k, w) (so values
\* older than the window have no part in it); no call panicked.
C22_WindowedMean ==
    (Len(average[1].values) >= 1 /\ Len(smoothed) >= 1)
    => LET w == Len(average[1].values)
           k == Len(smoothed)
           n == Min(k, w)
       IN  /\ ~panicked
           /\ last.op = "smooth"
           /\ average[1].count = n
           /\ average[1].ptr = k % w
           /\ average[1].acc = SumLast(smoothed, n)
           /\ last.arg = RDiv(SumLast(smoothed, n), RInt(n))
           /\ average[1].last = last.arg

\* C22: a window of two values has gone round twice and more; the first value
\* passed was 2, the last two were -1 and 0, and the call returned -1/2
C22_Witness ==
    /\ Len(average[1].values) = 2
    /\ Len(smoothed) = MaxSmooth
    /\ smoothed[1] = RInt(2)
    /\ smoothed[MaxSmooth - 1] = RNeg(One)
    /\ smoothed[MaxSmooth] = Zero
    /\ last.op = "smooth"
    /\ last.arg = RNeg(Half)

(* ---------------- Inertial: specification and claim C23 --------------- *)

\* cgmath::Vector2 with whole components, as <<x, y>>
VAdd(u, v) == <<u[1] + v[1], u[2] + v[2]>>

VScale(v, a) == <<v[1] * a, v[2] * a>>

\* InnerSpace::magnitude2
Magnitude2(v) == v[1] * v[1] + v[2] * v[2]

Directions == {"Up", "Down", "Left", "Right"}

\* Directional::unit
unit(d) ==
    CASE d = "Up" -> <<0, 1>>
      [] d = "Down" -> <<0, -1>>
      [] d = "Right" -> <<1, 0>>
      [] d = "Left" -> <<-1, 0>>

\* Inertial::new(impulse, inertia, limit); Inertial::default() is new(1, 1, 1)
Inertial_new(impulse, inertia, limit) ==
    [impulse |-> impulse, inertia |-> inertia, limit |-> limit,
     zero |-> <<0, 0>>, position |-> <<0, 0>>, velocity |-> <<0, 0>>]

\* self.velocity.magnitude() > self.limit, for limit >= 0
ExceedsLimit(m) == Magnitude2(m.velocity) > m.limit * m.limit

\* Inertial::push.  The statement self.velocity.normalize_to(self.limit) calls
\* InnerSpace::normalize_to(self, magnitude) -> Self on a copy of the velocity
\* and drops the vector it returns: neither branch of the if writes a field.
push(m, d) ==
    LET pushed == [m EXCEPT !.velocity = VAdd(@, VScale(unit(d), m.impulse))]
    IN  IF ExceedsLimit(pushed) THEN pushed ELSE pushed

\* Inertial::new(impulse, 1, limit)
InitInertial ==
    \E impulse \in 1..MaxImpulse, limit \in 1..MaxLimit :
        /\ NoAudio
        /\ panicked = FALSE
        /\ last = [op |-> "new", arg |-> 0]
        /\ average = <<>>
        /\ smoothed = <<>>
        /\ inertial = Some(Inertial_new(impulse, 1, limit))

\* inertial.push(d), while the velocity stays within the speeds of the model
Push(d) ==
    /\ \A c \in 1..2 : push(inertial[1], d).velocity[c] \in (-MaxSpeed)..MaxSpeed
    /\ inertial' = Some(push(inertial[1], d))
    /\ last' = [op |-> "push", arg |-> d]
    /\ UNCHANGED <<panicked, average, smoothed, no_audio>>

NextInertial == \E d \in Directions : Push(d)

SpecInertial == InitInertial /\ [][NextInertial]_vars

\* C23 as stated: after any sequence of push calls the magnitude of the velocity
\* is at most the limit (a push that would take it beyond the limit leaves it
\* at magnitude limit).
C23_VelocityWithinLimit ==
    Magnitude2(inertial[1].velocity) <= inertial[1].limit * inertial[1].limit

\* C23, what the code does: every push adds the impulse along its direction to
\* the velocity and changes nothing else, whatever the limit.
C23_PushOnlyAddsImpulse ==
    [][inertial' = Some([inertial[1] EXCEPT
                            !.velocity = VAdd(@, VScale(unit(last'.arg),
                                                        inertial[1].impulse))])]_vars

====
